---- MODULE Spec2Model ----
(***************************************************************************)
(* Channel trading pipeline (src/trading): pivot extraction, trendline     *)
(* fitting, channel validation, position classification, signal synthesis, *)
(* flow sentiment and the batch entry point.                               *)
(*                                                                         *)
(* Numbers.  The program computes in binary floating point.  The model     *)
(* computes in exact rational arithmetic: a number is a record             *)
(* [n |-> numerator, d |-> denominator] in lowest terms with d > 0, so     *)
(* that equal numbers are equal values.  Prices and premiums are small     *)
(* integers and the slopes handed directly to validate_channel are dyadic, *)
(* for which the floating point results agree with the exact ones.         *)
(*                                                                         *)
(* Dictionaries.  A Python dict is a function from a set of string keys;   *)
(* d.get(k, default) is Get(d, k, default).  None is the string "None".    *)
(***************************************************************************)
EXTENDS Integers, Sequences, FiniteSets, TLC

VARIABLES
    pc,              \* position of the operation under study
    channel_data,    \* generate_signal: the channel dict
    flow_sentiment,  \* generate_signal: the sentiment score
    gex_profile,     \* generate_signal: the gamma exposure dict
    unusual_trades,  \* generate_signal / analyze_flow_sentiment: trade dicts
    signal,          \* generate_signal's return value
    upper,           \* validate_channel: resistance Trendline
    lower,           \* validate_channel: support Trendline
    close,           \* the close price series (index 0 is close[1])
    lookback,        \* pivot separation distance
    valid,           \* validate_channel's return value
    run1,            \* outcome of a first detect_channel call
    run2,            \* outcome of a second detect_channel call on the same input
    response,        \* analyze_flow_sentiment: what the flow request returns
    tickers,         \* main: the tickers of the batch
    market,          \* main: what the data sources return for each ticker
    results,         \* main: the list being built
    orchestrator,    \* run_cycle: the agents configured and their parameters
    cycle_input,     \* run_cycle: symbol, market_data, portfolio_state, trade_details
    alpha_signal,    \* run_cycle: the local variable signal
    calls            \* run_cycle: the agent calls made so far, in order

vars == <<pc, channel_data, flow_sentiment, gex_profile, unusual_trades, signal,
          upper, lower, close, lookback, valid, run1, run2, response, tickers,
          market, results, orchestrator, cycle_input, alpha_signal, calls>>

cycleVars == <<orchestrator, cycle_input, alpha_signal, calls>>

-----------------------------------------------------------------------------
(* Exact rational arithmetic.                                              *)

Abs(x) == IF x < 0 THEN -x ELSE x

RECURSIVE Gcd(_, _)
Gcd(a, b) == IF b = 0 THEN a ELSE Gcd(b, a % b)

Sgn(x) == IF x < 0 THEN -1 ELSE 1

\* The rational n/d (d # 0) in lowest terms with a positive denominator.
Rat(n, d) ==
    LET g == Gcd(Abs(n), Abs(d))
    IN  [n |-> (Sgn(d) * n) \div g, d |-> Abs(d) \div g]

RInt(k) == [n |-> k, d |-> 1]
RAdd(a, b) == Rat(a.n * b.d + b.n * a.d, a.d * b.d)
RSub(a, b) == Rat(a.n * b.d - b.n * a.d, a.d * b.d)
RMul(a, b) == Rat(a.n * b.n, a.d * b.d)
RDiv(a, b) == Rat(a.n * b.d, a.d * b.n)
RAbs(a) == [n |-> Abs(a.n), d |-> a.d]
RLt(a, b) == a.n * b.d < b.n * a.d
RLe(a, b) == a.n * b.d <= b.n * a.d
RGt(a, b) == RLt(b, a)
RGe(a, b) == RLe(b, a)

-----------------------------------------------------------------------------
(* Python values.                                                          *)

None == "None"
EmptyDict == [k \in {} |-> None]
Get(dict, key, default) == IF key \in DOMAIN dict THEN dict[key] ELSE default

\* All sequences over S of length 0..n.
SeqsUpTo(S, n) == UNION {[1..k -> S] : k \in 0..n}

-----------------------------------------------------------------------------
(* strategy_engine.generate_signal                                         *)

\* any(t.get('type') == kind for t in unusual_trades)
AnyTradeOfType(trade_list, kind) ==
    \E i \in 1..Len(trade_list) : Get(trade_list[i], "type", None) = kind

\* Faulty variant: a gamma exposure of zero counted as positive.
GexPositive_ZeroCounts(gex) == Get(gex, "gex", 0) >= 0

\* gex_profile.get('gex', 0) > 0
GexPositive(gex) == Get(gex, "gex", 0) > 0

\* Faulty variant: the sentiment threshold taken as inclusive.
LongCond_InclusiveThreshold(ch, sent, gex, trade_list) ==
    /\ ch.type \in {"Ascending", "Horizontal"}
    /\ ch.current_position = "Near Support"
    /\ RGe(sent, Rat(1, 2))
    /\ AnyTradeOfType(trade_list, "call")
    /\ GexPositive(gex)

LongCond(ch, sent, gex, trade_list) ==
    /\ ch.type \in {"Ascending", "Horizontal"}
    /\ ch.current_position = "Near Support"
    /\ RGt(sent, Rat(1, 2))
    /\ AnyTradeOfType(trade_list, "call")
    /\ GexPositive(gex)

ShortCond(ch, sent, gex, trade_list) ==
    /\ ch.type \in {"Descending", "Horizontal"}
    /\ ch.current_position = "Near Resistance"
    /\ RLt(sent, Rat(-1, 2))
    /\ AnyTradeOfType(trade_list, "put")
    /\ GexPositive(gex)

Direction(ch, sent, gex, trade_list) ==
    IF LongCond(ch, sent, gex, trade_list) THEN "LONG" ELSE "SHORT"

\* Faulty variant: the entry price taken from the resistance line for both directions.
EntryPrice_AlwaysResistance(ch, direction) == ch.resistance_params[2]

EntryPrice(ch, direction) ==
    IF direction = "LONG" THEN ch.support_params[2] ELSE ch.resistance_params[2]

\* Faulty variant: the status short-circuit left out.
generate_signal_NoStatusCheck(ch, sent, gex, trade_list) ==
    IF ~(LongCond(ch, sent, gex, trade_list) \/ ShortCond(ch, sent, gex, trade_list))
    THEN EmptyDict
    ELSE LET direction == Direction(ch, sent, gex, trade_list)
         IN  [ticker |-> ch.ticker,
              direction |-> direction,
              confidence_score |-> ch.quality_score,
              entry_price_zone |-> EntryPrice(ch, direction),
              stop_loss |-> None,
              target_price_1 |-> None,
              target_price_2 |-> None]

generate_signal(ch, sent, gex, trade_list) ==
    IF ch.status # "Valid" THEN EmptyDict
    ELSE IF ~(LongCond(ch, sent, gex, trade_list) \/ ShortCond(ch, sent, gex, trade_list))
    THEN EmptyDict
    ELSE LET direction == Direction(ch, sent, gex, trade_list)
         IN  [ticker |-> ch.ticker,
              direction |-> direction,
              confidence_score |-> ch.quality_score,
              entry_price_zone |-> EntryPrice(ch, direction),
              stop_loss |-> None,
              target_price_1 |-> None,
              target_price_2 |-> None]

-----------------------------------------------------------------------------
(* channel_detector.Trendline and validate_channel                         *)

Trendline(slope, intercept) == [slope |-> slope, intercept |-> intercept]

\* Trendline.value_at: slope * x + intercept, x an integer array position.
value_at(line, x) == RAdd(RMul(line.slope, RInt(x)), line.intercept)

\* abs((upper.slope - lower.slope) / (lower.slope if lower.slope else 1))
SlopeDiff(up, lo) ==
    RAbs(RDiv(RSub(up.slope, lo.slope),
              IF lo.slope # RInt(0) THEN lo.slope ELSE RInt(1)))

\* within[i] for array position i (0-based): data <= upper_vals and data >= lower_vals
Within(up, lo, data, i) ==
    /\ RLe(RInt(data[i + 1]), value_at(up, i))
    /\ RGe(RInt(data[i + 1]), value_at(lo, i))

WithinCount(up, lo, data) ==
    Cardinality({i \in 0..(Len(data) - 1) : Within(up, lo, data, i)})

\* Faulty variant: the containment threshold taken as inclusive.
ContainmentOk_Inclusive(up, lo, data) ==
    Len(data) > 0 /\ RGe(Rat(WithinCount(up, lo, data), Len(data)), Rat(9, 10))

\* np.mean(within) > 0.9 (the mean of an empty array is nan, and nan > 0.9 is False)
ContainmentOk(up, lo, data) ==
    Len(data) > 0 /\ RGt(Rat(WithinCount(up, lo, data), Len(data)), Rat(9, 10))

validate_channel(up, lo, data) ==
    IF RGt(SlopeDiff(up, lo), Rat(1, 10)) THEN FALSE
    ELSE ContainmentOk(up, lo, data)

-----------------------------------------------------------------------------
(* channel_detector.identify_pivots: scipy.signal.find_peaks(data, distance) *)
(* on the series (highs) and on the negated series (lows).  Array positions *)
(* are 0-based: position i of a series q is q[i + 1].                       *)

\* sign * data[i]: the series itself (sign = 1) or the negated series (sign = -1)
Signed(data, sign, i) == sign * data[i + 1]

\* The local maxima: a run [l, r] of equal samples, strictly above the sample
\* before it and the sample after it, contributes its midpoint (l + r) // 2;
\* the first and the last sample are never part of a peak.
LocalMaxima(data, sign) ==
    {(l + r) \div 2 :
        <<l, r>> \in {w \in (1..(Len(data) - 2)) \X (1..(Len(data) - 2)) :
            /\ w[1] <= w[2]
            /\ Signed(data, sign, w[1] - 1) < Signed(data, sign, w[1])
            /\ \A k \in w[1]..w[2] : Signed(data, sign, k) = Signed(data, sign, w[1])
            /\ Signed(data, sign, w[2] + 1) < Signed(data, sign, w[1])}}

\* The peak handled next: the highest, the rightmost among equally high ones
\* (find_peaks sorts the positions by height with numpy's argsort, stable on
\* arrays this short, and walks them from the top).
NextByPriority(peaks, data, sign) ==
    CHOOSE j \in peaks : \A k \in peaks :
        \/ Signed(data, sign, j) > Signed(data, sign, k)
        \/ Signed(data, sign, j) = Signed(data, sign, k) /\ j >= k

\* Peaks are visited from the highest down; a peak still kept removes every
\* other peak closer than distance.
RECURSIVE SelectByPeakDistance(_, _, _, _, _)
SelectByPeakDistance(todo, keep, data, sign, distance) ==
    IF todo = {} THEN keep
    ELSE LET j == NextByPriority(todo, data, sign)
         IN  SelectByPeakDistance(
                 todo \ {j},
                 IF j \in keep
                 THEN {k \in keep : k = j \/ Abs(k - j) >= distance}
                 ELSE keep,
                 data, sign, distance)

find_peaks(data, sign, distance) ==
    LET peaks == LocalMaxima(data, sign)
    IN  SelectByPeakDistance(peaks, peaks, data, sign, distance)

identify_pivots(data, distance) ==
    [highs |-> find_peaks(data, 1, distance), lows |-> find_peaks(data, -1, distance)]

-----------------------------------------------------------------------------
(* channel_detector._fit_line: RANSACRegressor(LinearRegression()).fit with *)
(* its defaults: minimal samples of 2 points, the residual threshold the    *)
(* median absolute deviation of y, inliers those with                       *)
(* |y - prediction| <= threshold, the final line the least-squares fit of   *)
(* the chosen inlier set.  No random_state is given, so the samples drawn   *)
(* differ from call to call: a call may end with the inlier set of any      *)
(* 2-point sample (the same sample may be drawn at every trial).  In exact  *)
(* arithmetic the two sampled points always lie on their own line, so every *)
(* sample has at least 2 inliers and a fit of 2 or more points succeeds.    *)

RECURSIVE SetSum(_, _)
SetSum(S, f) ==
    IF S = {} THEN 0
    ELSE LET x == CHOOSE x \in S : TRUE IN f[x] + SetSum(S \ {x}, f)

\* LinearRegression on the points {(x, data[x]) : x \in S}, |S| >= 2.
LeastSquares(S, data) ==
    LET n   == Cardinality(S)
        sx  == SetSum(S, [x \in S |-> x])
        sy  == SetSum(S, [x \in S |-> data[x + 1]])
        sxx == SetSum(S, [x \in S |-> x * x])
        sxy == SetSum(S, [x \in S |-> x * data[x + 1]])
        den == n * sxx - sx * sx
    IN  Trendline(Rat(n * sxy - sx * sy, den), Rat(sy * sxx - sx * sxy, den))

\* The k-th smallest (k = 1..|S|) of the rationals f[x], x \in S.
KthSmallest(S, f, k) ==
    LET x == CHOOSE x \in S :
                 /\ Cardinality({z \in S : RLt(f[z], f[x])}) < k
                 /\ Cardinality({z \in S : RLe(f[z], f[x])}) >= k
    IN  f[x]

\* np.median
Median(S, f) ==
    LET n == Cardinality(S)
    IN  IF n % 2 = 1 THEN KthSmallest(S, f, (n + 1) \div 2)
        ELSE RDiv(RAdd(KthSmallest(S, f, n \div 2), KthSmallest(S, f, n \div 2 + 1)),
                  RInt(2))

\* np.median(np.abs(y - np.median(y)))
ResidualThreshold(S, data) ==
    LET y   == [x \in S |-> RInt(data[x + 1])]
        med == Median(S, y)
    IN  Median(S, [x \in S |-> RAbs(RSub(y[x], med))])

\* The inliers of the line fitted to the 2-point sample.
Inliers(sample, S, data) ==
    LET line == LeastSquares(sample, data)
        thr  == ResidualThreshold(S, data)
    IN  {x \in S : RLe(RAbs(RSub(RInt(data[x + 1]), value_at(line, x))), thr)}

\* Faulty variant: a single pivot fitted by the flat line through it.
FitLineOutcomes_SinglePointFlat(S, data) ==
    IF Cardinality(S) = 1
    THEN {Trendline(RInt(0), RInt(data[(CHOOSE x \in S : TRUE) + 1]))}
    ELSE {LeastSquares(Inliers(sample, S, data), data) :
             sample \in {w \in SUBSET S : Cardinality(w) = 2}}

\* The lines a call of _fit_line(x, data[x]) may return; with fewer than 2
\* points the fit raises ValueError and there is none.
FitLineOutcomes(S, data) ==
    {LeastSquares(Inliers(sample, S, data), data) :
        sample \in {w \in SUBSET S : Cardinality(w) = 2}}

-----------------------------------------------------------------------------
(* channel_detector.fit_trendlines and detect_channel                      *)

\* An exception leaving a call.
Raised(kind) == [error |-> kind]
IsRaised(r) == "error" \in DOMAIN r

\* The (upper, lower) pairs a call may return; none when either fit raises.
fit_trendlines(data, distance) ==
    LET piv == identify_pivots(data, distance)
    IN  FitLineOutcomes(piv.highs, data) \X FitLineOutcomes(piv.lows, data)

ChannelType(up) ==
    IF RGt(up.slope, RInt(0)) THEN "Ascending"
    ELSE IF RLt(up.slope, RInt(0)) THEN "Descending"
    ELSE "Horizontal"

\* Faulty variant: a tie between the two distances goes to the support side.
Position_TieToSupport(up, lo, data) ==
    LET current_price == RInt(data[Len(data)])
        x == Len(data) - 1
        support == value_at(lo, x)
        resistance == value_at(up, x)
    IN  IF RLe(RAbs(RSub(current_price, support)), RAbs(RSub(current_price, resistance)))
        THEN "Near Support"
        ELSE IF RLt(RAbs(RSub(current_price, resistance)), RAbs(RSub(current_price, support)))
        THEN "Near Resistance"
        ELSE "Middle"

Position(up, lo, data) ==
    LET current_price == RInt(data[Len(data)])
        x == Len(data) - 1
        support == value_at(lo, x)
        resistance == value_at(up, x)
    IN  IF RLt(RAbs(RSub(current_price, support)), RAbs(RSub(current_price, resistance)))
        THEN "Near Support"
        ELSE IF RLt(RAbs(RSub(current_price, resistance)), RAbs(RSub(current_price, support)))
        THEN "Near Resistance"
        ELSE "Middle"

\* The dict detect_channel builds from the fitted lines.
ChannelOf(up, lo, data) ==
    LET is_valid == validate_channel(up, lo, data)
    IN  [status |-> IF is_valid THEN "Valid" ELSE "Invalid",
         type |-> ChannelType(up),
         support_params |-> <<lo.slope, lo.intercept>>,
         resistance_params |-> <<up.slope, up.intercept>>,
         quality_score |-> IF is_valid THEN RInt(1) ELSE RInt(0),
         current_position |-> Position(up, lo, data)]

\* What a call of detect_channel may do: return one of these dicts, or let
\* the fit's ValueError through.
detect_channel(data, distance) ==
    LET fits == fit_trendlines(data, distance)
    IN  IF fits = {} THEN {Raised("ValueError")}
        ELSE {ChannelOf(f[1], f[2], data) : f \in fits}

\* detect_channel followed by generate_signal, as run_for_ticker chains them
\* (main.py lines 16-17 and 21).
DetectThenSignal(ticker, data, distance, sent, gex, trade_list) ==
    {IF IsRaised(ch) THEN ch
     ELSE LET named == [k \in DOMAIN ch \cup {"ticker"} |->
                           IF k = "ticker" THEN ticker ELSE ch[k]]
          IN  [channel |-> named,
               signal |-> generate_signal(named, sent, gex, trade_list)] :
     ch \in detect_channel(data, distance)}

-----------------------------------------------------------------------------
(* options_flow_analyzer: the requests and analyze_flow_sentiment.         *)
(* A request either raises (ok = FALSE) or returns a JSON object (body).   *)

HttpFailed == [ok |-> FALSE, body |-> EmptyDict]
HttpOk(body) == [ok |-> TRUE, body |-> body]

\* resp.get("data", []), and [] when the request raises
fetch_unusual_trades(resp) ==
    IF resp.ok THEN Get(resp.body, "data", <<>>) ELSE <<>>

RECURSIVE SumPremium(_, _)
\* sum(t.get(key, 0) for t in trades)
SumPremium(trade_list, key) ==
    IF trade_list = <<>> THEN 0
    ELSE Get(Head(trade_list), key, 0) + SumPremium(Tail(trade_list), key)

analyze_flow_sentiment(resp) ==
    LET trade_list == fetch_unusual_trades(resp)
        call_premium == SumPremium(trade_list, "call_premium")
        put_premium == SumPremium(trade_list, "put_premium")
        total == call_premium + put_premium
    IN  IF trade_list = <<>> THEN RInt(0)
        ELSE IF total = 0 THEN RInt(0)
        ELSE Rat(call_premium - put_premium, total)

get_gex_profile(resp) ==
    IF resp.ok
    THEN [gex |-> Get(resp.body, "gex", 0), flip_point |-> Get(resp.body, "flip_point", 0)]
    ELSE [gex |-> 0, flip_point |-> 0]

-----------------------------------------------------------------------------
(* main.run_for_ticker and main.main                                       *)

\* StrategyConfig.pivot_lookback
pivot_lookback == 5

\* AppConfig.watchlist
Watchlist == <<"AAPL", "MSFT", "SPY">>

\* What a call may do, given what the sources return for the ticker (src): let
\* an exception through (fetch_data's, or the fit's), or return the signal.
run_for_ticker(ticker, src) ==
    IF ~src.data_ok THEN {Raised("RuntimeError")}
    ELSE LET sentiment == analyze_flow_sentiment(src.flow_first)
             unusual == fetch_unusual_trades(src.flow_second)
             gex == get_gex_profile(src.gex)
         IN  {IF IsRaised(r) THEN r ELSE r.signal :
                 r \in DetectThenSignal(ticker, src.close, pivot_lookback,
                                        sentiment, gex, unusual)}

\* Faulty variant: the exception of one ticker not caught, ending the batch.
AfterTicker_NotCaught(res, symbol, r) ==
    IF IsRaised(r)
    THEN [results |-> res, pc |-> "main_raised"]
    ELSE [results |-> Append(res, r), pc |-> "main_loop"]

\* One turn of the for loop, given what run_for_ticker did (r): the try
\* appends its return value, the except appends an error record.
AfterTicker(res, symbol, r) ==
    IF IsRaised(r)
    THEN [results |-> Append(res, [ticker |-> symbol, error |-> r.error]),
          pc |-> "main_loop"]
    ELSE [results |-> Append(res, r), pc |-> "main_loop"]

-----------------------------------------------------------------------------
(* Inputs of generate_signal.                                              *)

MaxTrades == 2

Statuses == {"Valid", "Invalid", None}
ChannelTypes == {"Ascending", "Descending", "Horizontal"}
Positions == {"Near Support", "Near Resistance", "Middle"}
QualityScores == {RInt(0), RInt(1)}
\* (slope, intercept) pairs
SupportParams == {<<Rat(1, 2), RInt(1)>>, <<RInt(0), RInt(2)>>}
ResistanceParams == {<<Rat(1, 2), RInt(3)>>, <<RInt(0), RInt(4)>>}
Sentiments == {RInt(-1), Rat(-1, 2), RInt(0), Rat(1, 2), RInt(1)}
GexProfiles ==
    {[gex |-> g, flip_point |-> 0] : g \in {-1, 0, 1}} \cup {[flip_point |-> 0]}
SignalTrades == {[type |-> "call"], [type |-> "put"], EmptyDict}

ChannelDicts ==
    [status : Statuses, type : ChannelTypes, support_params : SupportParams,
     resistance_params : ResistanceParams, quality_score : QualityScores,
     current_position : Positions, ticker : {"AAPL"}]

IdleSignal ==
    /\ channel_data = EmptyDict
    /\ flow_sentiment = RInt(0)
    /\ gex_profile = EmptyDict
    /\ signal = EmptyDict

IdleValidate ==
    /\ upper = None
    /\ lower = None
    /\ valid = None

IdleDetect ==
    /\ close = <<>>
    /\ lookback = 0
    /\ run1 = None
    /\ run2 = None

IdleCycle ==
    /\ orchestrator = EmptyDict
    /\ cycle_input = EmptyDict
    /\ alpha_signal = None
    /\ calls = <<>>

IdleMain ==
    /\ tickers = <<>>
    /\ market = <<>>
    /\ response = EmptyDict
    /\ results = <<>>

InitSignal ==
    /\ pc = "signal_start"
    /\ channel_data \in ChannelDicts
    /\ flow_sentiment \in Sentiments
    /\ gex_profile \in GexProfiles
    /\ unusual_trades \in SeqsUpTo(SignalTrades, MaxTrades)
    /\ signal = EmptyDict
    /\ IdleValidate /\ IdleDetect /\ IdleMain
    /\ IdleCycle

GenerateSignal ==
    /\ pc = "signal_start"
    /\ signal' = generate_signal(channel_data, flow_sentiment, gex_profile, unusual_trades)
    /\ pc' = "signal_done"
    /\ UNCHANGED <<channel_data, flow_sentiment, gex_profile, unusual_trades,
                   upper, lower, close, lookback, valid, run1, run2, tickers,
                   market, response, results,
                   cycleVars>>

NextSignal == GenerateSignal

SpecSignal == InitSignal /\ [][NextSignal]_vars

NoSignal == DOMAIN signal = {}

\* C1: for a channel whose status is not 'Valid', generate_signal returns the
\* empty result whatever the sentiment, gex and unusual trades are.
C1_InvalidChannelNoSignal ==
    (pc = "signal_done" /\ channel_data.status # "Valid") => NoSignal

\* The case of C1: an Invalid channel whose other inputs satisfy the Long rule.
C1_Witness ==
    /\ pc = "signal_done"
    /\ channel_data.status = "Invalid"
    /\ channel_data.type = "Ascending"
    /\ channel_data.current_position = "Near Support"
    /\ flow_sentiment = RInt(1)
    /\ Len(unusual_trades) > 0 /\ unusual_trades[1] = [type |-> "call"]
    /\ "gex" \in DOMAIN gex_profile /\ gex_profile.gex = 1
    /\ NoSignal

\* The rule table as the claim states it, on the inputs.
C2_GexValue == IF "gex" \in DOMAIN gex_profile THEN gex_profile.gex ELSE 0
C2_HasTrade(kind) ==
    \E i \in 1..Len(unusual_trades) :
        "type" \in DOMAIN unusual_trades[i] /\ unusual_trades[i].type = kind
C2_LongRule ==
    /\ channel_data.type \in {"Ascending", "Horizontal"}
    /\ channel_data.current_position = "Near Support"
    /\ 2 * flow_sentiment.n > flow_sentiment.d
    /\ C2_HasTrade("call")
    /\ C2_GexValue > 0
C2_ShortRule ==
    /\ channel_data.type \in {"Descending", "Horizontal"}
    /\ channel_data.current_position = "Near Resistance"
    /\ 2 * flow_sentiment.n < -flow_sentiment.d
    /\ C2_HasTrade("put")
    /\ C2_GexValue > 0

\* C2: for a Valid channel the result is LONG iff the Long rule holds, SHORT iff
\* the Long rule fails and the Short rule holds, and empty otherwise; the two
\* rules never hold together.
C2_RuleTable ==
    (pc = "signal_done" /\ channel_data.status = "Valid") =>
        /\ ((~NoSignal /\ signal.direction = "LONG") <=> C2_LongRule)
        /\ ((~NoSignal /\ signal.direction = "SHORT") <=> (~C2_LongRule /\ C2_ShortRule))
        /\ (NoSignal <=> (~C2_LongRule /\ ~C2_ShortRule))
        /\ ~(C2_LongRule /\ C2_ShortRule)

\* The case of C2: a Horizontal channel near resistance gives SHORT.
C2_Witness ==
    /\ pc = "signal_done"
    /\ channel_data.status = "Valid"
    /\ channel_data.type = "Horizontal"
    /\ ~NoSignal
    /\ signal.direction = "SHORT"

\* C3: an emitted signal's entry_price_zone is the support intercept for LONG
\* and the resistance intercept for SHORT, its confidence_score is the
\* channel's quality_score, and stop_loss and both targets are unset.
C3_SignalFields ==
    (pc = "signal_done" /\ ~NoSignal) =>
        /\ signal.direction \in {"LONG", "SHORT"}
        /\ signal.direction = "LONG" =>
               signal.entry_price_zone = channel_data.support_params[2]
        /\ signal.direction = "SHORT" =>
               signal.entry_price_zone = channel_data.resistance_params[2]
        /\ signal.confidence_score = channel_data.quality_score
        /\ signal.stop_loss = None
        /\ signal.target_price_1 = None
        /\ signal.target_price_2 = None

\* The case of C3: a LONG signal on a sloped support line, where the intercept
\* differs from the line's value at any later index, and a quality score that
\* is not the one detect_channel pairs with Valid.
C3_Witness ==
    /\ pc = "signal_done"
    /\ ~NoSignal
    /\ signal.direction = "LONG"
    /\ channel_data.support_params[1] # RInt(0)
    /\ channel_data.quality_score = RInt(0)
    /\ signal.entry_price_zone = RInt(1)

-----------------------------------------------------------------------------
(* validate_channel on lines and series drawn from bounded sets.           *)

MaxSeriesLen == 10

\* Slopes in sixteenths: parallel, 10% apart, 20% apart, and a flat support
\* under a flat, a gently rising and a steeper resistance.
LowerSlopes == {Rat(k, 16) : k \in {-10, 0, 10}}
UpperSlopes == {Rat(k, 16) : k \in {-12, -11, -10, 0, 1, 2, 10, 11, 12}}
LowerIntercepts == {RInt(0), RInt(1)}
UpperIntercepts == {RInt(2), RInt(3)}
BandPrices == {1, 3}

InitValidate ==
    /\ pc = "validate_start"
    /\ upper \in {Trendline(s, c) : s \in UpperSlopes, c \in UpperIntercepts}
    /\ lower \in {Trendline(s, c) : s \in LowerSlopes, c \in LowerIntercepts}
    /\ close \in {q \in SeqsUpTo(BandPrices, MaxSeriesLen) : Len(q) > 0}
    /\ valid = None
    /\ lookback = 0 /\ run1 = None /\ run2 = None
    /\ unusual_trades = <<>>
    /\ IdleSignal /\ IdleMain
    /\ IdleCycle

ValidateChannel ==
    /\ pc = "validate_start"
    /\ valid' = validate_channel(upper, lower, close)
    /\ pc' = "validate_done"
    /\ UNCHANGED <<channel_data, flow_sentiment, gex_profile, unusual_trades,
                   signal, upper, lower, close, lookback, run1, run2, tickers,
                   market, response, results,
                   cycleVars>>

NextValidate == ValidateChannel

SpecValidate == InitValidate /\ [][NextValidate]_vars

\* The relative slope difference with the epsilon guard the claim describes.
C4_Epsilon == Rat(1, 1000)
C4_GuardedDenominator ==
    IF RGt(RAbs(lower.slope), C4_Epsilon) THEN RAbs(lower.slope) ELSE C4_Epsilon
C4_RelativeSlopeDiff ==
    RDiv(RAbs(RSub(upper.slope, lower.slope)), C4_GuardedDenominator)

\* C4: validate_channel returns Invalid whenever
\* |slope_upper - slope_lower| / max(|slope_lower|, epsilon) exceeds 0.10,
\* whatever the containment is; with a flat lower line any non-negligible
\* upper slope makes the channel Invalid.
C4_NonParallelInvalid ==
    (pc = "validate_done" /\ RGt(C4_RelativeSlopeDiff, Rat(1, 10))) => valid = FALSE

\* The fraction of samples inside the closed band, each at its own index.
C5_Inside(i) ==
    LET lo == RAdd(RMul(lower.slope, RInt(i)), lower.intercept)
        up == RAdd(RMul(upper.slope, RInt(i)), upper.intercept)
        p  == RInt(close[i + 1])
    IN  lo.n * p.d <= p.n * lo.d /\ p.n * up.d <= up.n * p.d
C5_InsideCount == Cardinality({i \in 0..(Len(close) - 1) : C5_Inside(i)})
C5_ParallelPasses == ~RGt(SlopeDiff(upper, lower), Rat(1, 10))

\* C5: when the parallelism check passes, validate_channel returns Valid iff
\* strictly more than 90% of the samples lie in [lower_value(i), upper_value(i)];
\* exactly 90% (9 of 10) is Invalid, and a sample on a line counts as inside.
C5_ContainmentStrict ==
    (pc = "validate_done" /\ C5_ParallelPasses) =>
        (valid <=> 10 * C5_InsideCount > 9 * Len(close))

\* The case of C5: 9 of 10 samples inside, one of them on the lower line.
C5_Witness ==
    /\ pc = "validate_done"
    /\ C5_ParallelPasses
    /\ Len(close) = 10
    /\ C5_InsideCount = 9
    /\ \E i \in 0..9 : RInt(close[i + 1]) = value_at(lower, i)
    /\ valid = FALSE

-----------------------------------------------------------------------------
(* detect_channel and generate_signal run twice on the same series and the *)
(* same external context.                                                  *)

MaxCloseLen == 7
MaxLookback == 3
ClosePrices == {0, 1, 2}

\* (sentiment, gex, unusual trades): a bullish and a bearish context.
DetectContexts ==
    {<<RInt(1), [gex |-> 1, flip_point |-> 0], <<[type |-> "call"]>>>>,
     <<RInt(-1), [gex |-> 1, flip_point |-> 0], <<[type |-> "put"]>>>>}

InitDetect ==
    /\ pc = "detect_start"
    /\ close \in {q \in SeqsUpTo(ClosePrices, MaxCloseLen) : Len(q) > 0}
    /\ lookback \in 1..MaxLookback
    /\ \E c \in DetectContexts :
          /\ flow_sentiment = c[1]
          /\ gex_profile = c[2]
          /\ unusual_trades = c[3]
    /\ run1 = None
    /\ run2 = None
    /\ channel_data = EmptyDict
    /\ signal = EmptyDict
    /\ IdleValidate /\ IdleMain
    /\ IdleCycle

FirstRun ==
    /\ pc = "detect_start"
    /\ run1' \in DetectThenSignal("AAPL", close, lookback, flow_sentiment,
                                  gex_profile, unusual_trades)
    /\ pc' = "detect_once"
    /\ UNCHANGED <<channel_data, flow_sentiment, gex_profile, unusual_trades,
                   signal, upper, lower, close, lookback, valid, run2, tickers,
                   market, response, results,
                   cycleVars>>

SecondRun ==
    /\ pc = "detect_once"
    /\ run2' \in DetectThenSignal("AAPL", close, lookback, flow_sentiment,
                                  gex_profile, unusual_trades)
    /\ pc' = "detect_twice"
    /\ UNCHANGED <<channel_data, flow_sentiment, gex_profile, unusual_trades,
                   signal, upper, lower, close, lookback, valid, run1, tickers,
                   market, response, results,
                   cycleVars>>

NextDetect == FirstRun \/ SecondRun

SpecDetect == InitDetect /\ [][NextDetect]_vars

\* The distances of the last close to the returned lines at the final index.
C6_Last == RInt(close[Len(close)])
C6_LineAtEnd(params) == RAdd(RMul(params[1], RInt(Len(close) - 1)), params[2])
C6_ToSupport == RAbs(RSub(C6_Last, C6_LineAtEnd(run1.channel.support_params)))
C6_ToResistance == RAbs(RSub(C6_Last, C6_LineAtEnd(run1.channel.resistance_params)))

\* C6: the position is Near Support iff the last close is strictly closer to
\* the support value at the final index, Near Resistance iff strictly closer to
\* the resistance value, and Middle exactly when the two distances are equal.
C6_PositionByDistance ==
    (pc # "detect_start" /\ ~IsRaised(run1)) =>
        LET pos == run1.channel.current_position
        IN  /\ pos \in {"Near Support", "Near Resistance", "Middle"}
            /\ (pos = "Near Support") <=> RLt(C6_ToSupport, C6_ToResistance)
            /\ (pos = "Near Resistance") <=> RLt(C6_ToResistance, C6_ToSupport)
            /\ (pos = "Middle") <=> (C6_ToSupport = C6_ToResistance)

\* The case of C6: a close midway between two distinct lines.
C6_Witness ==
    /\ pc # "detect_start"
    /\ ~IsRaised(run1)
    /\ C6_ToSupport = C6_ToResistance
    /\ C6_ToSupport # RInt(0)
    /\ run1.channel.current_position = "Middle"

\* C8: two runs of detect_channel followed by generate_signal on the same
\* series and the same external context give the same status, type, position,
\* line parameters and signal.
C8_TwoRunsAgree ==
    pc = "detect_twice" => run1 = run2

C9_Highs == identify_pivots(close, lookback).highs
C9_Lows == identify_pivots(close, lookback).lows
C9_TooFewPivots == Cardinality(C9_Highs) < 2 \/ Cardinality(C9_Lows) < 2

\* C9 as stated: with fewer than 2 highs or fewer than 2 lows the call fails
\* with DegenerateFitError and returns no channel.
C9_DegenerateFitError ==
    (pc # "detect_start" /\ C9_TooFewPivots) => run1 = Raised("DegenerateFitError")

\* C9 as amended: with fewer than 2 highs or fewer than 2 lows the call fails
\* with the fit's ValueError, surfaced to the caller, and returns no channel.
C9_TooFewPivotsRaises ==
    (pc # "detect_start" /\ C9_TooFewPivots) =>
        /\ IsRaised(run1)
        /\ run1.error = "ValueError"
        /\ "channel" \notin DOMAIN run1

\* The case of C9: enough highs for the resistance line, a single low.
C9_Witness ==
    /\ pc # "detect_start"
    /\ Cardinality(C9_Highs) >= 2
    /\ Cardinality(C9_Lows) = 1
    /\ IsRaised(run1)

-----------------------------------------------------------------------------
(* analyze_flow_sentiment on responses drawn from a bounded set.           *)

MaxFlowTrades == 2
Premiums == {-1, 0, 2}
PremiumTrades ==
    [call_premium : Premiums, put_premium : Premiums]
        \cup {[call_premium |-> 2], [put_premium |-> 2], EmptyDict}
FlowResponses ==
    {HttpFailed, HttpOk(EmptyDict)}
        \cup {HttpOk([data |-> l]) : l \in SeqsUpTo(PremiumTrades, MaxFlowTrades)}

InitSentiment ==
    /\ pc = "sentiment_start"
    /\ response \in FlowResponses
    /\ flow_sentiment = RInt(0)
    /\ channel_data = EmptyDict /\ gex_profile = EmptyDict /\ signal = EmptyDict
    /\ unusual_trades = <<>>
    /\ tickers = <<>> /\ market = <<>> /\ results = <<>>
    /\ IdleValidate /\ IdleDetect
    /\ IdleCycle

AnalyzeFlowSentiment ==
    /\ pc = "sentiment_start"
    /\ flow_sentiment' = analyze_flow_sentiment(response)
    /\ pc' = "sentiment_done"
    /\ UNCHANGED <<channel_data, gex_profile, unusual_trades, signal, upper,
                   lower, close, lookback, valid, run1, run2, response, tickers,
                   market, results,
                   cycleVars>>

NextSentiment == AnalyzeFlowSentiment

SpecSentiment == InitSentiment /\ [][NextSentiment]_vars

C10_Trades == IF response.ok /\ "data" \in DOMAIN response.body THEN response.body.data ELSE <<>>
C10_Call == SumPremium(C10_Trades, "call_premium")
C10_Put == SumPremium(C10_Trades, "put_premium")

\* C10: analyze_flow_sentiment returns a value in [-1, 1]: 0 when there are no
\* trades or the premium total is zero, (call - put) / (call + put) otherwise,
\* for every trade list, missing, zero and negative premiums included.
C10_SentimentInRange ==
    pc = "sentiment_done" =>
        /\ -flow_sentiment.d <= flow_sentiment.n
        /\ flow_sentiment.n <= flow_sentiment.d
        /\ (C10_Trades = <<>> \/ C10_Call + C10_Put = 0) => flow_sentiment = RInt(0)
        /\ (C10_Trades # <<>> /\ C10_Call + C10_Put # 0) =>
               flow_sentiment.n * (C10_Call + C10_Put) = (C10_Call - C10_Put) * flow_sentiment.d

-----------------------------------------------------------------------------
(* main over a ticker list, the sources returning one of a few cases for   *)
(* each ticker.                                                            *)

MaxTickers == 2

\* Eleven closes between a flat support at 0 and a flat resistance at 2, with
\* highs and lows 5 apart, ending on the support and on the resistance.
EndsOnSupport == <<1, 2, 1, 0, 1, 1, 2, 1, 0, 1, 0>>
EndsOnResistance == <<1, 0, 1, 2, 1, 1, 0, 1, 2, 1, 2>>
BullishFlow == HttpOk([data |-> <<[type |-> "call", call_premium |-> 2]>>])
BearishFlow == HttpOk([data |-> <<[type |-> "put", put_premium |-> 2]>>])

Source(data_ok, series, flow_first, flow_second, gex) ==
    [data_ok |-> data_ok, close |-> series, flow_first |-> flow_first,
     flow_second |-> flow_second, gex |-> gex]

Sources ==
    {Source(FALSE, <<>>, BullishFlow, BullishFlow, HttpOk([gex |-> 1])),
     Source(TRUE, <<1, 1, 1>>, BullishFlow, BullishFlow, HttpOk([gex |-> 1])),
     Source(TRUE, EndsOnSupport, BullishFlow, BullishFlow, HttpOk([gex |-> 1])),
     Source(TRUE, EndsOnSupport, BullishFlow, BullishFlow, HttpFailed),
     Source(TRUE, EndsOnResistance, BearishFlow, BearishFlow, HttpOk([gex |-> 1])),
     Source(TRUE, EndsOnSupport, HttpFailed, BullishFlow, HttpOk([gex |-> 1]))}

InitMain ==
    /\ pc = "main_loop"
    /\ \E requested \in SeqsUpTo({"AAPL", "MSFT", "SPY"}, MaxTickers) :
          tickers = IF requested = <<>> THEN Watchlist ELSE requested
    /\ market \in [{"AAPL", "MSFT", "SPY"} -> Sources]
    /\ results = <<>>
    /\ response = EmptyDict
    /\ unusual_trades = <<>>
    /\ IdleSignal /\ IdleValidate /\ IdleDetect
    /\ IdleCycle

ProcessTicker ==
    /\ pc = "main_loop"
    /\ Len(results) < Len(tickers)
    /\ LET symbol == tickers[Len(results) + 1]
       IN  \E r \in run_for_ticker(symbol, market[symbol]) :
              LET after == AfterTicker(results, symbol, r)
              IN  results' = after.results /\ pc' = after.pc
    /\ UNCHANGED <<channel_data, flow_sentiment, gex_profile, unusual_trades,
                   signal, upper, lower, close, lookback, valid, run1, run2,
                   response, tickers, market,
                   cycleVars>>

ReturnResults ==
    /\ pc = "main_loop"
    /\ Len(results) = Len(tickers)
    /\ pc' = "main_done"
    /\ UNCHANGED <<channel_data, flow_sentiment, gex_profile, unusual_trades,
                   signal, upper, lower, close, lookback, valid, run1, run2,
                   response, tickers, market, results,
                   cycleVars>>

NextMain == ProcessTicker \/ ReturnResults

SpecMain == InitMain /\ [][NextMain]_vars

\* run_for_ticker fails for the i-th ticker of the batch.
C7_Fails(i) == \E r \in run_for_ticker(tickers[i], market[tickers[i]]) : IsRaised(r)
C7_IsErrorRecord(entry) == DOMAIN entry = {"ticker", "error"}

\* C7: a failure for one ticker never aborts the batch: the loop goes on to
\* the tickers after it, the returned list has one entry per ticker in request
\* order, and a failing ticker's entry is an error record, not a signal.
C7_BatchSurvivesFailure ==
    /\ pc \in {"main_loop", "main_done"}
    /\ Len(results) <= Len(tickers)
    /\ pc = "main_done" => Len(results) = Len(tickers)
    /\ \A i \in 1..Len(results) :
          /\ C7_Fails(i) <=> C7_IsErrorRecord(results[i])
          /\ "ticker" \in DOMAIN results[i] => results[i].ticker = tickers[i]

\* The case of C7: the first ticker fails and the second yields a signal.
C7_Witness ==
    /\ pc = "main_done"
    /\ Len(tickers) = 2
    /\ C7_Fails(1)
    /\ C7_IsErrorRecord(results[1])
    /\ "direction" \in DOMAIN results[2]
    /\ results[2].ticker = tickers[2]

-----------------------------------------------------------------------------
(* run_for_ticker for one ticker, over what the gamma exposure request and *)
(* the other sources may return.                                           *)

TickerSeries == {EndsOnSupport, EndsOnResistance, <<1, 1, 1>>}
TickerFlows == {BullishFlow, BearishFlow, HttpFailed}
GexResponses ==
    {HttpFailed, HttpOk(EmptyDict), HttpOk([flip_point |-> 1])}
        \cup {HttpOk([gex |-> g, flip_point |-> 1]) : g \in {-1, 0, 1}}

InitTicker ==
    /\ pc = "main_loop"
    /\ tickers = <<"AAPL">>
    /\ market \in [{"AAPL"} ->
          {Source(TRUE, q, f1, f2, g) :
              q \in TickerSeries, f1 \in TickerFlows, f2 \in TickerFlows,
              g \in GexResponses}
          \cup {Source(FALSE, <<>>, BullishFlow, BullishFlow, g) : g \in GexResponses}]
    /\ results = <<>>
    /\ response = EmptyDict
    /\ unusual_trades = <<>>
    /\ IdleSignal /\ IdleValidate /\ IdleDetect
    /\ IdleCycle

SpecTicker == InitTicker /\ [][NextMain]_vars

\* The gamma exposure value the request yields: the "gex" field, 0.0 when the
\* field is missing or the request fails.
C12_GexResponse == market[tickers[1]].gex
C12_GexValue ==
    IF C12_GexResponse.ok /\ "gex" \in DOMAIN C12_GexResponse.body
    THEN C12_GexResponse.body.gex
    ELSE 0

\* C12: in run_for_ticker, whenever the gamma exposure value is not strictly
\* positive, the {gex: 0.0, flip_point: 0.0} default included, no signal is
\* produced in either direction, whatever channel, sentiment and trades are.
C12_NoSignalWithoutPositiveGex ==
    (Len(results) = 1 /\ C12_GexValue <= 0) => "direction" \notin DOMAIN results[1]

\* The case of C12: the gex request fails for a ticker whose channel, sentiment
\* and unusual trades satisfy the Long rule, and the result is empty.
C12_Witness ==
    /\ pc = "main_done"
    /\ ~C12_GexResponse.ok
    /\ market[tickers[1]].data_ok
    /\ market[tickers[1]].close = EndsOnSupport
    /\ market[tickers[1]].flow_first = BullishFlow
    /\ market[tickers[1]].flow_second = BullishFlow
    /\ DOMAIN results[1] = {}

-----------------------------------------------------------------------------
(* The agents coordinated by StrategyOrchestrator.                         *)

short_window == 20
long_window == 50
max_position_size == 10000
max_sector_exposure == Rat(1, 4)

\* A float that is not a number; every comparison with it is false.
NaN == [nan |-> TRUE]
IsNaN(x) == "nan" \in DOMAIN x
FLe(a, b) == ~IsNaN(a) /\ ~IsNaN(b) /\ RLe(a, b)
FLt(a, b) == ~IsNaN(a) /\ ~IsNaN(b) /\ RLt(a, b)

\* A frame is summarised by its number of rows, its column names and the
\* rolling means of its close at the last two rows, <<previous, last>>.  A
\* rolling mean over `window` rows is NaN on the first window - 1 rows.
Sma(market_data, means, window, back) ==
    IF market_data.rows - back < window THEN NaN ELSE RInt(means[2 - back])

\* DataCurationAgent.prepare: a copy with the indicator columns appended.
prepare(market_data) ==
    [market_data EXCEPT !.columns = @ \cup {"RSI", "MACD", "BBANDS"}]

\* DynamicStrategyAgent.adjust: `numbers` are the integers of the LLM reply.
adjust(alpha_agent, risk_agent, client, context, numbers) ==
    IF ~client \/ context = None
    THEN [alpha |-> alpha_agent, risk |-> risk_agent]
    ELSE [alpha |-> IF Len(numbers) >= 2
                    THEN [short_window |-> numbers[1], long_window |-> numbers[2]]
                    ELSE alpha_agent,
          risk  |-> IF Len(numbers) >= 3
                    THEN [risk_agent EXCEPT !.max_position_size = numbers[3]]
                    ELSE risk_agent]

\* AlphaSignalAgent.analyze_market_data: the signal, and the frame with the
\* two SMA columns it appends in place.
analyze_market_data(alpha_agent, market_data) ==
    IF market_data.rows < alpha_agent.long_window
    THEN [signal |-> "HOLD", market_data |-> market_data]
    ELSE
      LET last_short == Sma(market_data, market_data.short_mean, alpha_agent.short_window, 0)
          last_long  == Sma(market_data, market_data.long_mean, alpha_agent.long_window, 0)
          prev_short == Sma(market_data, market_data.short_mean, alpha_agent.short_window, 1)
          prev_long  == Sma(market_data, market_data.long_mean, alpha_agent.long_window, 1)
          appended   == [market_data EXCEPT !.columns = @ \cup {"SMA_short", "SMA_long"}]
      IN  [signal |->
              IF FLe(prev_short, prev_long) /\ FLt(last_long, last_short) THEN "BUY"
              ELSE IF FLe(prev_long, prev_short) /\ FLt(last_short, last_long) THEN "SELL"
              ELSE "HOLD",
           market_data |-> appended]

\* RiskManagementAgent.assess_trade: "True", "False", or the error raised.
assess_trade(risk_agent, proposed_trade, current_portfolio) ==
    LET trade_value == proposed_trade.value
        trade_sector == proposed_trade.sector
    IN  IF trade_value > risk_agent.max_position_size THEN "False"
        ELSE
          LET portfolio_value == current_portfolio.total_value
              current_sector_value ==
                  RMul(Get(current_portfolio.sector_exposure, trade_sector, RInt(0)),
                       RInt(portfolio_value))
              new_sector_value == RAdd(current_sector_value, RInt(trade_value))
              new_total == portfolio_value + trade_value
          IN  IF new_total = 0 THEN "ZeroDivisionError"
              ELSE IF RLe(RDiv(new_sector_value, RInt(new_total)),
                          risk_agent.max_sector_exposure)
                   THEN "True" ELSE "False"

-----------------------------------------------------------------------------
(* StrategyOrchestrator.run_cycle, one action per step of its body.        *)

Call(name, ret) == [call |-> name, ret |-> ret]

\* Where run_cycle goes after the signal and after the risk check.
AfterSignal(sig) == IF sig = "HOLD" THEN "cycle_return" ELSE "cycle_risk"
\* Faulty variant: the trade is executed whatever the risk agent answered.
AfterRisk_IgnoresRejection(approved) == "cycle_execute"
AfterRisk(approved) == IF ~approved THEN "cycle_return" ELSE "cycle_execute"

Orchestrators ==
    [data_agent : BOOLEAN, dynamic_agent : BOOLEAN, dynamic_client : BOOLEAN,
     analysis_agent : BOOLEAN,
     alpha_agent : {[short_window |-> short_window, long_window |-> long_window]},
     risk_agent : {[max_position_size |-> max_position_size,
                    max_sector_exposure |-> max_sector_exposure]}]

CycleMeans == {<<a, b>> : a \in 1..3, b \in 1..3}
CycleFrames ==
    [rows : {long_window - 1, long_window, long_window + 1}, columns : {{"close"}},
     short_mean : CycleMeans, long_mean : {<<2, 2>>}]
CycleTrades ==
    {[value |-> v, sector |-> "tech", quantity |-> 10] : v \in {0, 5000, 20000}}
        \cup {[value |-> 5000, sector |-> "tech"]}
CyclePortfolios ==
    [total_value : {0, 30000},
     sector_exposure : {EmptyDict, [tech |-> Rat(1, 2)]}]
LlmNumbers == {<<>>, <<5, 10>>, <<5, 10, 1000>>}

InitCycle ==
    /\ pc = "cycle_start"
    /\ orchestrator \in {o \in Orchestrators : o.dynamic_client => o.dynamic_agent}
    /\ cycle_input \in [symbol : {"AAPL"}, market_data : CycleFrames,
                        portfolio_state : CyclePortfolios, trade_details : CycleTrades]
    /\ alpha_signal = None
    /\ calls = <<>>
    /\ IdleSignal /\ IdleValidate /\ IdleDetect /\ IdleMain
    /\ unusual_trades = <<>>

nonCycleVars ==
    <<channel_data, flow_sentiment, gex_profile, unusual_trades, signal, upper,
      lower, close, lookback, valid, run1, run2, response, tickers, market,
      results>>

\* if self.data_agent: market_data = self.data_agent.prepare(market_data)
CurateData ==
    /\ pc = "cycle_start"
    /\ IF orchestrator.data_agent
       THEN /\ cycle_input' =
                  [cycle_input EXCEPT !.market_data = prepare(@)]
            /\ calls' = Append(calls, Call("prepare", "DataFrame"))
       ELSE UNCHANGED <<cycle_input, calls>>
    /\ pc' = "cycle_adjust"
    /\ UNCHANGED <<orchestrator, alpha_signal, nonCycleVars>>

\* if self.dynamic_agent: self.dynamic_agent.adjust(alpha_agent, risk_agent)
DynamicAdjust ==
    /\ pc = "cycle_adjust"
    /\ IF orchestrator.dynamic_agent
       THEN \E numbers \in LlmNumbers :
              LET adjusted == adjust(orchestrator.alpha_agent, orchestrator.risk_agent,
                                     orchestrator.dynamic_client, None, numbers)
              IN  /\ orchestrator' = [orchestrator EXCEPT
                                         !.alpha_agent = adjusted.alpha,
                                         !.risk_agent = adjusted.risk]
                  /\ calls' = Append(calls, Call("adjust", None))
       ELSE UNCHANGED <<orchestrator, calls>>
    /\ pc' = "cycle_signal"
    /\ UNCHANGED <<cycle_input, alpha_signal, nonCycleVars>>

\* signal = self.alpha_agent.analyze_market_data(market_data); HOLD returns
ObtainSignal ==
    /\ pc = "cycle_signal"
    /\ LET analysed == analyze_market_data(orchestrator.alpha_agent,
                                           cycle_input.market_data)
       IN  /\ alpha_signal' = analysed.signal
           /\ cycle_input' = [cycle_input EXCEPT !.market_data = analysed.market_data]
           /\ calls' = Append(calls, Call("analyze_market_data", analysed.signal))
           /\ pc' = AfterSignal(analysed.signal)
    /\ UNCHANGED <<orchestrator, nonCycleVars>>

\* if not self.risk_agent.assess_trade(trade_details, portfolio_state): return
CheckRisk ==
    /\ pc = "cycle_risk"
    /\ LET answer == assess_trade(orchestrator.risk_agent, cycle_input.trade_details,
                                  cycle_input.portfolio_state)
       IN  /\ calls' = Append(calls, Call("assess_trade", answer))
           /\ pc' = IF answer \in {"True", "False"}
                    THEN AfterRisk(answer = "True")
                    ELSE "cycle_raised"
    /\ UNCHANGED <<orchestrator, cycle_input, alpha_signal, nonCycleVars>>

\* self.execution_agent.execute_trade(symbol=..., action=signal,
\* quantity=trade_details["quantity"]): the argument is evaluated first, and
\* the execution agent, which is any object, returns or raises.
ExecuteTrade ==
    /\ pc = "cycle_execute"
    /\ IF "quantity" \notin DOMAIN cycle_input.trade_details
       THEN pc' = "cycle_raised" /\ UNCHANGED calls
       ELSE \E returns \in BOOLEAN :
              /\ calls' = Append(calls,
                     Call("execute_trade", IF returns THEN None ELSE "raised"))
              /\ pc' = IF returns THEN "cycle_analysis" ELSE "cycle_raised"
    /\ UNCHANGED <<orchestrator, cycle_input, alpha_signal, nonCycleVars>>

\* if self.analysis_agent: self.analysis_agent.evaluate(symbol, trade_details, {})
PostTradeAnalysis ==
    /\ pc = "cycle_analysis"
    /\ calls' = IF orchestrator.analysis_agent
                THEN Append(calls, Call("evaluate", None))
                ELSE calls
    /\ pc' = "cycle_return"
    /\ UNCHANGED <<orchestrator, cycle_input, alpha_signal, nonCycleVars>>

NextCycle ==
    \/ CurateData
    \/ DynamicAdjust
    \/ ObtainSignal
    \/ CheckRisk
    \/ ExecuteTrade
    \/ PostTradeAnalysis

SpecCycle == InitCycle /\ [][NextCycle]_vars

C11_Indices(name) == {i \in DOMAIN calls : calls[i].call = name}
C11_AtMostOnce(name) == Cardinality(C11_Indices(name)) <= 1
\* Every call of `name` has a call of `earlier` before it.
C11_Preceded(name, earlier) ==
    \A j \in C11_Indices(name) : \E i \in C11_Indices(earlier) : i < j
\* Every call of `name` has a call of `earlier` that returned `ret` before it.
C11_PrecededBy(name, earlier, rets) ==
    \A j \in C11_Indices(name) :
        \E i \in C11_Indices(earlier) : i < j /\ calls[i].ret \in rets
C11_EndsCycle(entry) ==
    \/ entry = Call("analyze_market_data", "HOLD")
    \/ entry = Call("assess_trade", "False")

\* C11: run_cycle keeps a strict step order.  Data curation and dynamic
\* adjustment are called exactly when configured, and then before the alpha
\* signal is obtained; the risk check is made only after a signal other than
\* HOLD; execute_trade is called at most once, and only after a signal other
\* than HOLD and an approval by the risk agent; post-trade analysis is called
\* only after execute_trade.  A HOLD signal or a risk rejection is the last
\* call of the cycle: run_cycle returns with no execution and no analysis.
C11_StrictStepOrder ==
    /\ \A name \in {"prepare", "adjust", "analyze_market_data", "assess_trade",
                    "execute_trade", "evaluate"} : C11_AtMostOnce(name)
    /\ IF orchestrator.data_agent
       THEN C11_Preceded("analyze_market_data", "prepare")
       ELSE C11_Indices("prepare") = {}
    /\ IF orchestrator.dynamic_agent
       THEN C11_Preceded("analyze_market_data", "adjust")
       ELSE C11_Indices("adjust") = {}
    /\ C11_PrecededBy("assess_trade", "analyze_market_data", {"BUY", "SELL"})
    /\ C11_PrecededBy("execute_trade", "analyze_market_data", {"BUY", "SELL"})
    /\ C11_PrecededBy("execute_trade", "assess_trade", {"True"})
    /\ C11_Preceded("evaluate", "execute_trade")
    /\ \A i \in DOMAIN calls :
          C11_EndsCycle(calls[i]) => (i = Len(calls) /\ pc = "cycle_return")

\* A cycle with every optional agent configured that ran all six steps, and
\* the risk agent had a real decision to make (a sector already held).
C11_Witness ==
    /\ pc = "cycle_return"
    /\ Len(calls) = 6
    /\ calls[1].call = "prepare"
    /\ calls[2].call = "adjust"
    /\ calls[3] = Call("analyze_market_data", "SELL")
    /\ calls[4] = Call("assess_trade", "True")
    /\ calls[5].call = "execute_trade"
    /\ calls[6].call = "evaluate"
    /\ cycle_input.portfolio_state.total_value > 0

====
